---- MODULE Spec2Model ----
(***************************************************************************)
(* Model of spiro.c: firmware that drives a motor through a PWM output,    *)
(* either copying a knob (ADC) to the duty or ramping between random       *)
(* duties.  The state is main()'s local variables, the PWM compare         *)
(* register OCR0A and the switch pin PB3; one action per unit of work of   *)
(* the main loop.                                                          *)
(***************************************************************************)
EXTENDS Integers, Sequences, FiniteSets, TLC

VARIABLES
    pc,             \* position in main(): "boot", "poll", "step", "wait"
    PINB3,          \* level of the switch pin PB3 (0 = switch off)
    rnd,            \* uint16_t rnd
    pwm,            \* uint8_t pwm
    OCR0A,          \* PWM compare register, last value given to set_pwm
    to_pwm,         \* uint8_t to_pwm
    delta_p,        \* int16_t delta_p
    ip,             \* int8_t ip
    error,          \* int16_t error
    t,              \* int16_t t
    counter,        \* volatile int16_t counter (value when the wait ends)
    counter_delta,  \* int16_t counter_delta
    leg_from,       \* history: pwm when the current ramp leg began
    changes,        \* history: executions of pwm += ip; set_pwm in the leg
    steps,          \* history: decision steps executed in the leg
    waits,          \* history: busy-waits executed in the leg
    iters,          \* history: outer-loop iterations begun
    pinb_reads,     \* history: reads of PINB
    last,           \* history: last unit of work begun: "none", "manual", "leg"
    in_a, in_b,     \* arguments of scale_pwm under ScaleSpec
    out_a, out_b,   \* results of scale_pwm under ScaleSpec
    scale_done,     \* ScaleSpec: scale_pwm has been applied
    adc_reads,      \* history: calls of read_adc
    pwm_writes,     \* history: calls of set_pwm
    gen_seed,       \* GenSpec: the generator state the iteration began with
    gen_n,          \* GenSpec: generator steps made since gen_seed
    wt_a, wt_b,     \* WaitSpec: two ADC samples
    delta_a, delta_b, \* WaitSpec: counter_delta for each sample
    n_a, n_b,       \* WaitSpec: iterations of the countdown for each sample
    exit_a, exit_b, \* WaitSpec: counter when the countdown is left
    wt_done         \* WaitSpec: the busy-waits have been run

vars == <<pc, PINB3, rnd, pwm, OCR0A, to_pwm, delta_p, ip, error, t, counter,
          counter_delta, leg_from, changes, steps, waits, iters, pinb_reads,
          last, in_a, in_b, out_a, out_b, scale_done, adc_reads, pwm_writes,
          gen_seed, gen_n, wt_a, wt_b, delta_a, delta_b, n_a, n_b, exit_a,
          exit_b, wt_done>>

legVars == <<to_pwm, delta_p, ip, error, t, leg_from, changes, steps, waits>>
waitVars == <<counter, counter_delta>>
scaleVars == <<in_a, in_b, out_a, out_b, scale_done>>
ioVars == <<adc_reads, pwm_writes>>
genVars == <<gen_seed, gen_n>>
timeVars == <<wt_a, wt_b, delta_a, delta_b, n_a, n_b, exit_a, exit_b, wt_done>>
\* the variables of the specifications of single functions
pureVars == <<scaleVars, genVars, timeVars>>

----------------------------------------------------------------------------
(* Bounds of the model *)

\* outer-loop iterations (manual copies and ramp legs) explored
MaxIters == 3

\* values the ADC returns: knob at minimum, in between, at maximum
ADCSamples == {0, 92, 255}

----------------------------------------------------------------------------
(* Constants of the program *)

PWM_MIN == 62

delta_t == 255

CounterStart == 6000

CounterOffset == 10

LcgIncrement == 13107     \* 0x3333

----------------------------------------------------------------------------
(* Fixed-width arithmetic *)

ToUint8(x) == x % 256

ToUint16(x) == x % 65536

ToInt16(x) == LET m == x % 65536 IN IF m >= 32768 THEN m - 65536 ELSE m

Abs(x) == IF x < 0 THEN -x ELSE x

Min(a, b) == IF a <= b THEN a ELSE b

Max(a, b) == IF a >= b THEN a ELSE b

----------------------------------------------------------------------------
(* scale_pwm: (uint8_t)(((uint16_t)(255 - PWM_MIN) * in + 127) / 255) + PWM_MIN *)

scale_pwm_no_offset(in) ==
    ToUint8(ToUint8(ToUint16(ToUint16(255 - PWM_MIN) * in + 127) \div 255))

scale_pwm_div256(in) ==
    ToUint8(ToUint8(ToUint16(ToUint16(255 - PWM_MIN) * in + 127) \div 256) + PWM_MIN)

scale_pwm_narrow(in) ==
    ToUint8(ToUint8(ToUint8(ToUint8(255 - PWM_MIN) * in + 127) \div 255) + PWM_MIN)

scale_pwm(in) ==
    ToUint8(ToUint8(ToUint16(ToUint16(255 - PWM_MIN) * in + 127) \div 255) + PWM_MIN)

(* the number of values of the uint16_t rnd *)
Uint16Values == 65536

(* a generator that multiplies by 3: (rnd << 1) + rnd + 0x3333 *)
NextRnd_times3(r) == ToUint16(ToUint16(r * 2) + r + LcgIncrement)

(* rnd = (rnd << 2) + rnd + 0x3333, in 16-bit unsigned arithmetic *)
NextRnd(r) == ToUint16(ToUint16(r * 4) + r + LcgIncrement)

(* the low byte taken for the high one *)
HighByte_low(r) == r % 256

(* rnd >> 8 *)
HighByte(r) == r \div 256

(* the sample left in the low byte *)
SeedRnd_low(adc) == ToUint16(adc)

(* uint16_t rnd = adc << 8.  adc is promoted to a 16-bit int, so for       *)
(* adc >= 128 the shift leaves the range of int; avr-gcc defines signed <<  *)
(* as the shift of the bit pattern, and the conversion to uint16_t gives    *)
(* adc * 256 in every case.                                                 *)
SeedRnd(adc) == ToUint16(adc * 256)

(* int16_t error = -delta_t *)
ErrorInit_positive == ToInt16(delta_t)

ErrorInit_zero == ToInt16(delta_t - delta_t)

ErrorInit == ToInt16(-delta_t)

(* the loop test when t is unsigned: always true *)
LoopCond_unsigned(tt) == ToUint16(tt) >= 0

(* the loop test of for (int16_t t = delta_t; t >= 0; t--) *)
LoopCond(tt) == tt >= 0

(* while ((counter -= counter_delta) >= 0) {} run for at most k iterations   *)
(* from counter value c: <<counter, iterations executed>>.  The k iterations *)
(* are run as two halves so that the evaluation does not nest k deep; the    *)
(* second half is not run when the first one has left the loop.              *)
RECURSIVE Spin(_, _, _)
Spin(c, d, k) ==
    IF k = 1
    THEN <<ToInt16(c - d), 1>>
    ELSE LET h == Spin(c, d, k \div 2)
         IN  IF h[1] < 0
             THEN h
             ELSE LET r == Spin(h[1], d, k - k \div 2)
                  IN  <<r[1], h[2] + r[2]>>

(* the whole busy-wait: counter = 6000, then the loop above to its exit; a  *)
(* positive decrement leaves the loop within CounterStart + 1 iterations     *)
Countdown(c, d) == Spin(c, d, CounterStart + 1)

(* a decrement without the offset *)
CounterDelta_no_offset(adc) == ToInt16(adc)

(* a decrement that falls as the sample rises *)
CounterDelta_inverted(adc) == ToInt16((255 - adc) + CounterOffset)

(* counter_delta = (int16_t)read_adc() + 10 *)
CounterDelta(adc) == ToInt16(adc + CounterOffset)

(* the busy-wait of one decision step for each ADC sample:                  *)
(* <<counter at exit, iterations>>                                          *)
BusyWaitOf == [adc \in ADCSamples |-> Countdown(CounterStart, CounterDelta(adc))]

(* the same for every value read_adc can return *)
BusyWaitOfSample == [adc \in 0..255 |-> Countdown(CounterStart, CounterDelta(adc))]

----------------------------------------------------------------------------
(* Initial state: entry of main(), nothing read or written yet *)

MainIdle ==
    /\ rnd = 0 /\ pwm = 0 /\ OCR0A = 0
    /\ to_pwm = 0 /\ delta_p = 0 /\ ip = 0 /\ error = 0 /\ t = 0
    /\ counter = 0 /\ counter_delta = 0
    /\ leg_from = 0 /\ changes = 0 /\ steps = 0 /\ waits = 0
    /\ iters = 0 /\ pinb_reads = 0 /\ last = "none"
    /\ adc_reads = 0 /\ pwm_writes = 0

ScaleIdle ==
    /\ in_a = 0 /\ in_b = 0 /\ out_a = 0 /\ out_b = 0 /\ scale_done = FALSE

GenIdle ==
    /\ gen_seed = 0 /\ gen_n = 0

WaitIdle ==
    /\ wt_a = 0 /\ wt_b = 0 /\ delta_a = 0 /\ delta_b = 0
    /\ n_a = 0 /\ n_b = 0 /\ exit_a = 0 /\ exit_b = 0 /\ wt_done = FALSE

Init ==
    /\ pc = "boot"
    /\ PINB3 \in {0, 1}
    /\ MainIdle
    /\ ScaleIdle
    /\ GenIdle
    /\ WaitIdle

----------------------------------------------------------------------------
(* The switch is moved by the user at any time *)
SwitchToggle ==
    /\ pc \in {"boot", "poll", "step", "wait"}
    /\ PINB3' = 1 - PINB3
    /\ UNCHANGED <<pc, rnd, pwm, OCR0A, legVars, waitVars, iters, pinb_reads,
                   last, ioVars, pureVars>>

(* main() up to the main loop: seed rnd from one ADC sample, full power *)
Boot ==
    /\ pc = "boot"
    /\ \E adc \in ADCSamples :
          rnd' = SeedRnd(adc)
    /\ pwm' = 255
    /\ OCR0A' = 255
    /\ adc_reads' = adc_reads + 1
    /\ pwm_writes' = pwm_writes + 1
    /\ pc' = "poll"
    /\ UNCHANGED <<PINB3, legVars, waitVars, iters, pinb_reads, last, pureVars>>

(* a manual iteration that samples the ADC once for rnd and again for pwm *)
ManualCopy_two_reads ==
    /\ pc = "poll"
    /\ iters < MaxIters
    /\ PINB3 = 0
    /\ \E adc1 \in ADCSamples, adc2 \in ADCSamples :
          /\ rnd' = ToUint16(rnd + adc1)
          /\ pwm' = scale_pwm(adc2)
          /\ OCR0A' = scale_pwm(adc2)
    /\ pc' = "poll"
    /\ iters' = iters + 1
    /\ pinb_reads' = pinb_reads + 1
    /\ last' = "manual"
    /\ adc_reads' = adc_reads + 2
    /\ pwm_writes' = pwm_writes + 1
    /\ UNCHANGED <<PINB3, legVars, waitVars, pureVars>>

(* one outer-loop iteration with the switch off: copy ADC to PWM *)
ManualCopy ==
    /\ pc = "poll"
    /\ iters < MaxIters
    /\ PINB3 = 0
    /\ \E adc \in ADCSamples :
          /\ rnd' = ToUint16(rnd + adc)
          /\ pwm' = scale_pwm(adc)
          /\ OCR0A' = scale_pwm(adc)
    /\ pc' = "poll"
    /\ iters' = iters + 1
    /\ pinb_reads' = pinb_reads + 1
    /\ last' = "manual"
    /\ adc_reads' = adc_reads + 1
    /\ pwm_writes' = pwm_writes + 1
    /\ UNCHANGED <<PINB3, legVars, waitVars, pureVars>>

(* the switch is on: new random target and set-up of the ramp leg *)
BeginLeg ==
    /\ pc = "poll"
    /\ iters < MaxIters
    /\ PINB3 # 0
    /\ rnd' = NextRnd(rnd)
    /\ to_pwm' = scale_pwm(HighByte(NextRnd(rnd)))
    /\ LET d == ToInt16(scale_pwm(HighByte(NextRnd(rnd))) - pwm)
       IN  /\ ip' = IF d < 0 THEN -1 ELSE 1
           /\ delta_p' = ToInt16(ToInt16(Abs(d)) * 2)
    /\ error' = ErrorInit
    /\ t' = delta_t
    /\ pc' = IF LoopCond(delta_t) THEN "step" ELSE "poll"
    /\ leg_from' = pwm
    /\ changes' = 0
    /\ steps' = 0
    /\ waits' = 0
    /\ iters' = iters + 1
    /\ pinb_reads' = pinb_reads + 1
    /\ last' = "leg"
    /\ UNCHANGED <<PINB3, pwm, OCR0A, waitVars, ioVars, pureVars>>

(* one decision step: error += delta_p; if (error >= 0) { ... } *)
DecisionStep ==
    /\ pc = "step"
    /\ LET e == ToInt16(error + delta_p)
       IN  IF e >= 0
           THEN /\ error' = ToInt16(e - delta_t * 2)
                /\ pwm' = ToUint8(pwm + ip)
                /\ OCR0A' = ToUint8(pwm + ip)
                /\ changes' = changes + 1
                /\ pwm_writes' = pwm_writes + 1
           ELSE /\ error' = e
                /\ UNCHANGED <<pwm, OCR0A, changes, pwm_writes>>
    /\ steps' = steps + 1
    /\ pc' = "wait"
    /\ UNCHANGED <<PINB3, rnd, to_pwm, delta_p, ip, t, leg_from, waits,
                   waitVars, iters, pinb_reads, last, adc_reads, pureVars>>

(* a busy-wait that also polls the switch and gives the leg up when it is off *)
BusyWait_polling ==
    /\ pc = "wait"
    /\ \E adc \in ADCSamples :
          /\ counter_delta' = CounterDelta(adc)
          /\ counter' = BusyWaitOf[adc][1]
    /\ waits' = waits + 1
    /\ t' = ToInt16(t - 1)
    /\ pinb_reads' = pinb_reads + 1
    /\ adc_reads' = adc_reads + 1
    /\ pc' = IF LoopCond(ToInt16(t - 1)) /\ PINB3 # 0 THEN "step" ELSE "poll"
    /\ UNCHANGED <<PINB3, rnd, pwm, OCR0A, to_pwm, delta_p, ip, error,
                   leg_from, changes, steps, iters, last, pwm_writes, pureVars>>

(* the busy-wait that ends a decision step, then t-- and the loop test *)
BusyWait ==
    /\ pc = "wait"
    /\ \E adc \in ADCSamples :
          /\ counter_delta' = CounterDelta(adc)
          /\ counter' = BusyWaitOf[adc][1]
    /\ waits' = waits + 1
    /\ t' = ToInt16(t - 1)
    /\ adc_reads' = adc_reads + 1
    /\ pc' = IF LoopCond(ToInt16(t - 1)) THEN "step" ELSE "poll"
    /\ UNCHANGED <<PINB3, rnd, pwm, OCR0A, to_pwm, delta_p, ip, error,
                   leg_from, changes, steps, iters, pinb_reads, last,
                   pwm_writes, pureVars>>

Next ==
    \/ SwitchToggle
    \/ Boot
    \/ ManualCopy
    \/ BeginLeg
    \/ DecisionStep
    \/ BusyWait

Spec == Init /\ [][Next]_vars

(* the steps of the firmware, as opposed to those of the user *)
Program ==
    \/ Boot
    \/ ManualCopy
    \/ BeginLeg
    \/ DecisionStep
    \/ BusyWait

(* the processor never stops: a step of the firmware that stays possible is *)
(* taken (read_adc returns, the countdown is left)                          *)
FairSpec == Spec /\ WF_vars(Program)

----------------------------------------------------------------------------
(* scale_pwm applied to every pair of 8-bit inputs *)

ScaleInit ==
    /\ pc = "scale"
    /\ PINB3 = 0
    /\ MainIdle
    /\ in_a \in 0..255
    /\ in_b \in 0..255
    /\ out_a = 0 /\ out_b = 0
    /\ scale_done = FALSE
    /\ GenIdle
    /\ WaitIdle

ScaleCall ==
    /\ pc = "scale"
    /\ ~scale_done
    /\ out_a' = scale_pwm(in_a)
    /\ out_b' = scale_pwm(in_b)
    /\ scale_done' = TRUE
    /\ UNCHANGED <<pc, PINB3, rnd, pwm, OCR0A, legVars, waitVars, iters,
                   pinb_reads, last, in_a, in_b, ioVars, genVars, timeVars>>

ScaleNext == ScaleCall

ScaleSpec == ScaleInit /\ [][ScaleNext]_vars

----------------------------------------------------------------------------
(* The generator alone: the switch held on, the ramp legs left out.  Each    *)
(* step is the generator step and target derivation of BeginLeg.            *)

\* generator states the iteration starts from: the seeds of Boot and others
GenSeeds == {SeedRnd(adc) : adc \in ADCSamples} \cup {1, 13107, 65535}

GenInit ==
    /\ pc = "gen"
    /\ PINB3 = 1
    /\ gen_seed \in GenSeeds
    /\ rnd = gen_seed
    /\ gen_n = 0
    /\ pwm = 0 /\ OCR0A = 0
    /\ to_pwm = 0 /\ delta_p = 0 /\ ip = 0 /\ error = 0 /\ t = 0
    /\ counter = 0 /\ counter_delta = 0
    /\ leg_from = 0 /\ changes = 0 /\ steps = 0 /\ waits = 0
    /\ iters = 0 /\ pinb_reads = 0 /\ last = "none"
    /\ adc_reads = 0 /\ pwm_writes = 0
    /\ ScaleIdle
    /\ WaitIdle

GenStep ==
    /\ pc = "gen"
    /\ gen_n < Uint16Values
    /\ rnd' = NextRnd(rnd)
    /\ to_pwm' = scale_pwm(HighByte(NextRnd(rnd)))
    /\ gen_n' = gen_n + 1
    /\ UNCHANGED <<pc, PINB3, pwm, OCR0A, delta_p, ip, error, t, leg_from,
                   changes, steps, waits, waitVars, iters, pinb_reads, last,
                   ioVars, scaleVars, gen_seed, timeVars>>

GenNext == GenStep

GenSpec == GenInit /\ [][GenNext]_vars

----------------------------------------------------------------------------
(* The busy-wait alone, for every pair of ADC samples *)

WaitInit ==
    /\ pc = "busywait"
    /\ PINB3 = 1
    /\ MainIdle
    /\ ScaleIdle
    /\ GenIdle
    /\ wt_a \in 0..255
    /\ wt_b \in 0..255
    /\ delta_a = 0 /\ delta_b = 0
    /\ n_a = 0 /\ n_b = 0 /\ exit_a = 0 /\ exit_b = 0
    /\ wt_done = FALSE

WaitCall ==
    /\ pc = "busywait"
    /\ ~wt_done
    /\ delta_a' = CounterDelta(wt_a)
    /\ delta_b' = CounterDelta(wt_b)
    /\ LET ra == BusyWaitOfSample[wt_a]
           rb == BusyWaitOfSample[wt_b]
       IN  /\ exit_a' = ra[1] /\ n_a' = ra[2]
           /\ exit_b' = rb[1] /\ n_b' = rb[2]
    /\ wt_done' = TRUE
    /\ UNCHANGED <<pc, PINB3, rnd, pwm, OCR0A, legVars, waitVars, iters,
                   pinb_reads, last, ioVars, scaleVars, genVars, wt_a, wt_b>>

WaitNext == WaitCall

WaitSpec == WaitInit /\ [][WaitNext]_vars

----------------------------------------------------------------------------
(* Properties of the ramp leg *)

InLeg == pc \in {"step", "wait"}

\* the decision-step loop of the last leg begun has been left
LegDone == pc = "poll" /\ last = "leg"

\* C1: when a ramp leg finishes, pwm and the last value written to the PWM
\* output are exactly the target to_pwm.
RampConverges ==
    LegDone => (pwm = to_pwm /\ OCR0A = to_pwm)

\* C2: when a ramp leg finishes, the number of duty changes made in it is
\* exactly |to_pwm - duty at the start of the leg|.
RampStepCount ==
    LegDone => changes = Abs(to_pwm - leg_from)

\* C3: during a ramp leg and at its end, the duty and the value in the PWM
\* output lie between the starting duty and the target, inclusive.
NoOvershoot ==
    (InLeg \/ LegDone) =>
        /\ Min(leg_from, to_pwm) <= pwm /\ pwm <= Max(leg_from, to_pwm)
        /\ Min(leg_from, to_pwm) <= OCR0A /\ OCR0A <= Max(leg_from, to_pwm)

\* C4: once the main loop is entered, the duty and the PWM output are always
\* in [PWM_MIN, 255].
MinimumDuty ==
    pc \in {"poll", "step", "wait"} =>
        /\ PWM_MIN <= pwm /\ pwm <= 255
        /\ PWM_MIN <= OCR0A /\ OCR0A <= 255

\* C5: every ramp leg executes exactly 255 decision steps, each followed by
\* exactly one busy-wait.
ConstantStepCount ==
    /\ LegDone => (steps = 255 /\ waits = 255)
    /\ pc = "step" => waits = steps
    /\ pc = "wait" => waits + 1 = steps

\* C6: in a ramp leg whose target equals its starting duty the error
\* accumulator stays negative, no duty change and no PWM write is made, and
\* the duty stays at its starting value up to the end of the leg.
EqualEndpoints ==
    ((InLeg \/ LegDone) /\ to_pwm = leg_from) =>
        /\ error < 0
        /\ changes = 0
        /\ pwm = leg_from
        /\ OCR0A = leg_from

EqualEndpointsWitness ==
    /\ LegDone
    /\ to_pwm = leg_from
    /\ steps > 0
    /\ waits = steps
    /\ pwm = leg_from

\* C7: PINB is read once per outer-loop iteration, when the iteration begins,
\* and never inside a ramp leg: whatever the switch does, a step inside a leg
\* reads no pin, copies no ADC value to the duty, and leaves the leg only
\* when the loop test on t fails after t has counted down one by one.
SwitchOnlyBetweenUnits ==
    [][ /\ iters' # iters => (pc = "poll" /\ pinb_reads' = pinb_reads + 1)
        /\ iters' = iters => pinb_reads' = pinb_reads
        /\ InLeg =>
              /\ pinb_reads' = pinb_reads
              /\ last' = "leg"
              /\ rnd' = rnd
              /\ to_pwm' = to_pwm
              /\ pwm' \in {pwm, ToUint8(pwm + ip)}
              /\ t' \in {t, t - 1}
              /\ pc' \in {"step", "wait", "poll"}
              /\ pc' = "poll" => ~LoopCond(t')
      ]_vars

SwitchOnlyBetweenUnitsWitness ==
    /\ pc = "wait"
    /\ PINB3 = 0
    /\ steps > 1
    /\ t > 0

----------------------------------------------------------------------------
(* Properties of scale_pwm, under ScaleSpec *)

\* the scaling formula in unbounded integers
ExactScale(in) == (((255 - PWM_MIN) * in + 127) \div 255) + PWM_MIN

\* C8: for every input in 0..255 the result of scale_pwm is in
\* [PWM_MIN, 255], and neither the 16-bit product nor the 8-bit result is
\* truncated.
ScalerRange ==
    scale_done =>
        /\ PWM_MIN <= out_a /\ out_a <= 255
        /\ (255 - PWM_MIN) * in_a + 127 <= 65535
        /\ ((255 - PWM_MIN) * in_a + 127) \div 255 <= 255
        /\ ExactScale(in_a) <= 255
        /\ out_a = ExactScale(in_a)

ScalerRangeWitness ==
    /\ scale_done
    /\ in_a = 128
    /\ out_a = 159

\* C9: scale_pwm(0) = PWM_MIN and scale_pwm(255) = 255.
ScalerEndpoints ==
    scale_done =>
        /\ in_a = 0 => out_a = PWM_MIN
        /\ in_a = 255 => out_a = 255
        /\ in_b = 0 => out_b = PWM_MIN
        /\ in_b = 255 => out_b = 255

ScalerEndpointsWitness ==
    /\ scale_done
    /\ in_a = 0 /\ out_a = PWM_MIN
    /\ in_b = 255 /\ out_b = 255

\* C10: for inputs a < b in 0..255, scale_pwm(a) <= scale_pwm(b).
ScalerMonotonic ==
    (scale_done /\ in_a < in_b) => out_a <= out_b

ScalerMonotonicWitness ==
    /\ scale_done
    /\ in_a = 100 /\ in_b = 102
    /\ out_a < out_b

----------------------------------------------------------------------------
(* Properties of the generator, under GenSpec *)

\* C11: iterating rnd = 5*rnd + 0x3333 (mod 2^16) from a seed, the seed comes
\* back after exactly 65536 steps and not earlier, so that the 65536 states
\* visited before are all different (a state repeated earlier would put the
\* seed, which recurs at step 65536, on a shorter cycle).
GeneratorPeriod ==
    /\ (gen_n > 0 /\ rnd = gen_seed) => gen_n = 65536
    /\ gen_n = 65536 => rnd = gen_seed

GeneratorPeriodWitness ==
    /\ gen_n = 65536
    /\ rnd = gen_seed
    /\ gen_seed = 23552

----------------------------------------------------------------------------
(* Properties of the busy-wait, under WaitSpec *)

\* C12: for ADC samples s1 < s2, the countdown of the busy-wait makes no more
\* iterations with s2 than with s1.
TimingMonotonic ==
    (wt_done /\ wt_a < wt_b) => n_b <= n_a

TimingMonotonicWitness ==
    /\ wt_done
    /\ wt_a = 0 /\ wt_b = 255
    /\ n_a = 601 /\ n_b = 23

\* C17: for every ADC sample s the decrement is s + 10, in [10, 265]; the
\* countdown from 6000 is left after exactly floor(6000 / (s + 10)) + 1
\* subtractions, at most 601, with the counter negative and not below -265.
BusyWaitBound ==
    wt_done =>
        /\ delta_a = wt_a + 10
        /\ 10 <= delta_a /\ delta_a <= 265
        /\ n_a = (6000 \div (wt_a + 10)) + 1
        /\ n_a <= 601
        /\ exit_a < 0
        /\ exit_a >= -265
        /\ exit_a = 6000 - n_a * (wt_a + 10)

BusyWaitBoundWitness ==
    /\ wt_done
    /\ wt_a = 0
    /\ n_a = 601
    /\ exit_a = -10

----------------------------------------------------------------------------
(* Properties of the main loop *)

\* an outer-loop iteration begins in this step
BeginsManual == pc = "poll" /\ iters' # iters /\ last' = "manual"

BeginsLeg == pc = "poll" /\ iters' # iters /\ last' = "leg"

\* C13: rnd is assigned once, before the main loop, from one ADC sample put
\* in its high byte; after that a step changes rnd only by one generator step
\* when a ramp leg begins or by adding the ADC sample of a manual iteration;
\* decision steps and busy-waits leave it unchanged.
GeneratorStateCarried ==
    [][ /\ pc = "boot" =>
              \/ pc' = "boot" /\ rnd' = rnd
              \/ /\ pc' = "poll"
                 /\ rnd' % 256 = 0
                 /\ rnd' \div 256 \in 0..255
                 /\ adc_reads' = adc_reads + 1
        /\ pc # "boot" => pc' # "boot"
        /\ BeginsLeg => rnd' = (5 * rnd + 13107) % 65536
        /\ BeginsManual =>
              /\ adc_reads' = adc_reads + 1
              /\ \E s \in 0..255 : rnd' = (rnd + s) % 65536
        /\ (pc = "poll" /\ iters' = iters) => rnd' = rnd
        /\ InLeg => rnd' = rnd
      ]_vars

GeneratorStateCarriedWitness ==
    /\ pc = "wait"
    /\ steps > 1
    /\ iters = 2
    /\ rnd = 1070

\* C14: in a ramp leg a decision step changes the duty at most once, and every
\* change is by exactly one unit in the direction of the leg (+1 when the
\* target is not below the starting duty, -1 otherwise), as a difference of
\* the 8-bit values.
UnitSteps ==
    [][ InLeg =>
          /\ changes' - changes \in {0, 1}
          /\ pc = "wait" => pwm' = pwm
          /\ pwm' # pwm => pwm' - pwm = (IF to_pwm >= leg_from THEN 1 ELSE -1)
          /\ OCR0A' # OCR0A => OCR0A' - OCR0A = (IF to_pwm >= leg_from THEN 1 ELSE -1)
      ]_vars

\* C15: a generator step takes rnd to (5 * rnd + 0x3333) mod 2^16 and the
\* target is scale_pwm of the high byte of the new rnd, in [PWM_MIN, 255].
TargetDerivation ==
    [][ ((pc = "gen" /\ gen_n' # gen_n) \/ BeginsLeg) =>
          /\ rnd' = (5 * rnd + 13107) % 65536
          /\ to_pwm' = ExactScale(rnd' \div 256)
          /\ PWM_MIN <= to_pwm' /\ to_pwm' <= 255
      ]_vars

TargetDerivationWitness ==
    /\ pc = "gen"
    /\ gen_seed = 65280
    /\ gen_n = 1
    /\ rnd = 11827
    /\ to_pwm = 97

\* C16: an outer-loop iteration that finds the switch off reads the ADC once,
\* sets pwm to scale_pwm of that sample and writes it to the PWM output once,
\* adds the same sample to rnd, and touches nothing of a ramp leg.
ManualIteration ==
    [][ (pc = "poll" /\ iters' # iters /\ PINB3 = 0) =>
          /\ \E s \in 0..255 :
                /\ pwm' = ExactScale(s)
                /\ OCR0A' = ExactScale(s)
                /\ rnd' = (rnd + s) % 65536
          /\ adc_reads' = adc_reads + 1
          /\ pwm_writes' = pwm_writes + 1
          /\ pc' = "poll"
          /\ last' = "manual"
          /\ UNCHANGED legVars
      ]_vars

ManualIterationWitness ==
    /\ pc = "poll"
    /\ last = "manual"
    /\ steps = 256
    /\ leg_from = 255 /\ to_pwm = 101
    /\ pwm = 132 /\ OCR0A = 132

\* C18: a ramp leg makes a bounded number of decision steps and busy-waits;
\* from start-up and from inside a leg the main loop always comes back to
\* polling the switch, and it goes on polling: every outer-loop iteration
\* explored is eventually begun by a read of the switch.
Progress ==
    /\ [](steps <= delta_t + 1 /\ waits <= delta_t + 1)
    /\ (pc # "poll") ~> (pc = "poll")
    /\ <>(iters = MaxIters /\ pinb_reads = MaxIters)

ProgressWitness ==
    /\ pc = "poll"
    /\ last = "manual"
    /\ iters = 2
    /\ steps = delta_t + 1
    /\ waits = delta_t + 1

\* C19: pwm += ip is never executed on a duty of 255 with ip = 1 nor on a
\* duty of 0 with ip = -1: the 8-bit duty does not wrap.
NoDutyWrap ==
    (pc = "step" /\ ToInt16(error + delta_p) >= 0) =>
        (0 <= pwm + ip /\ pwm + ip <= 255)

\* C20: the error accumulator is -255 when a leg begins and in [-510, -1]
\* after every decision step; the value tested is at most 509, delta_p is in
\* [0, 510], and none of them leaves the range of int16_t.
ErrorBound ==
    (InLeg \/ LegDone) =>
        /\ steps = 0 => error = -255
        /\ -510 <= error /\ error < 0
        /\ 0 <= delta_p /\ delta_p <= 510
        /\ delta_p = 2 * Abs(to_pwm - leg_from)
        /\ pc = "step" => error + delta_p <= 509

ErrorBoundWitness ==
    /\ pc = "step"
    /\ leg_from = 62 /\ to_pwm = 255
    /\ delta_p = 386
    /\ error + delta_p >= 380
    /\ steps > 0

====
